---- MODULE Spec2Model ----
(***************************************************************************)
(* Occupancy-grid region labelling (extractAllRegions) and area-weighted   *)
(* spawn sampling (BasicEnvironment.generateOccupancyMap and               *)
(* BasicEnvironment.generateSpawnPositions) of home_platform/env.py.       *)
(*                                                                         *)
(* Grids are functions from cells <<i, j>> (0-based, as in numpy) to       *)
(* integers.  Areas are exact rationals <<numerator, denominator>>: the     *)
(* precision is <<1, q>> (a cell side of 1/q length units), cellArea is    *)
(* precision^2, and areas and shares are compared by cross-multiplication. *)
(***************************************************************************)
EXTENDS Integers, Sequences, FiniteSets, TLC

VARIABLES
    shape,             \* occupacyGrid.shape, <<H, W>>
    input,             \* value of the caller's grid when the call was made
    callerGrid,        \* the array object the caller passed in
    occupacyGrid,      \* the local array of extractAllRegions
    curRegionId,       \* extractAllRegions: curRegionId
    heap,              \* extractAllRegions: heap (contents, in push order)
    visited,           \* extractAllRegions: visited
    pushes,            \* number of heappush calls per cell in the current fill
    freeAtSeed,        \* number of unlabelled free cells when the current fill began
    pc,                \* position in the running function
    n,                 \* generateSpawnPositions: n
    minRegionArea,     \* generateSpawnPositions: minRegionArea
    precision,         \* generateSpawnPositions: precision
    occupancyMapCoord, \* self.occupancyMapCoord
    labeledNavMap,     \* self.labeledNavMap
    unfiltered,        \* self.labeledNavMap as returned by extractAllRegions
    nbRegions,         \* nbRegions
    r,                 \* loop variable of the filtering pass
    curValidRegionId,  \* generateOccupancyMap: curValidRegionId
    regionAreas,       \* regionAreas of generateOccupancyMap, then of generateSpawnPositions
    filterAreas,       \* regionAreas as generateOccupancyMap left it
    s,                 \* cumulative area numerators; cumulative share k is s[k] / s[-1]
    positions,         \* generateSpawnPositions: positions
    selRegionIds,      \* selRegionId of every appended position
    error              \* exception that ended the call, or "none"

vars == <<shape, input, callerGrid, occupacyGrid, curRegionId, heap, visited,
          pushes, freeAtSeed, pc, n, minRegionArea, precision, occupancyMapCoord,
          labeledNavMap, unfiltered, nbRegions, r, curValidRegionId, regionAreas,
          filterAreas, s, positions, selRegionIds, error>>

labelVars == <<occupacyGrid, curRegionId, heap, visited, pushes, freeAtSeed>>

spawnVars == <<n, minRegionArea, precision, occupancyMapCoord, labeledNavMap,
               unfiltered, nbRegions, r, curValidRegionId, regionAreas,
               filterAreas, s, positions, selRegionIds, error>>

(***************************************************************************)
(* Bounds of the model.                                                    *)
(***************************************************************************)
MaxCells == 7
MaxN == 1
MaxMinRegionArea == 2
MaxPrecisionDen == 2
MaxDen == 3

OCCUPIED_MARK == -1

(***************************************************************************)
(* Grids.                                                                  *)
(***************************************************************************)
Shapes == {sh \in (1..MaxCells) \X (1..MaxCells) : sh[1] * sh[2] <= MaxCells}

Cells(sh) == (0..(sh[1] - 1)) \X (0..(sh[2] - 1))

\* Tuple comparison of Python, which is also numpy's row-major order.
LexLess(a, b) == a[1] < b[1] \/ (a[1] = b[1] /\ a[2] < b[2])

\* np.count_nonzero(g == v)
CountEq(g, v) == Cardinality({c \in DOMAIN g : g[c] = v})

\* np.argwhere(g == v): the cells holding v, in row-major order.
RECURSIVE SortCells(_)
SortCells(S) ==
    IF S = {} THEN <<>>
    ELSE LET m == CHOOSE c \in S : \A d \in S : d = c \/ LexLess(c, d)
         IN  <<m>> \o SortCells(S \ {m})

ArgwhereGe(g, v) == SortCells({c \in DOMAIN g : g[c] >= v})

Argwhere(g, v) == SortCells({c \in DOMAIN g : g[c] = v})

\* np.max(g)
GridMax(g) == CHOOSE m \in {g[c] : c \in DOMAIN g} : \A c \in DOMAIN g : g[c] <= m


(***************************************************************************)
(* extractAllRegions.                                                      *)
(***************************************************************************)

\* astype of line 42 without copying: the local array is the caller's array.
AstypeShares == FALSE

\* np.atleast_2d(occupacyGrid).astype(np.int) returns a new array (astype
\* copies by default), so the writes to the local array do not reach the
\* caller's array.
AstypeCopies == TRUE

\* The caller's array after the local array has become g.
CallerAfter(g) == IF AstypeCopies THEN callerGrid ELSE g

NormaliseKeep(g) == g

\* occupacyGrid[occupacyGrid != 0] = -1
Normalise(g) == [c \in DOMAIN g |-> IF g[c] # 0 THEN OCCUPIED_MARK ELSE g[c]]

LastFreeCell(g) == Argwhere(g, 0)[Len(Argwhere(g, 0))]

\* start = tuple(np.argwhere(occupacyGrid == 0)[0])
StartCell(g) == Argwhere(g, 0)[1]

NeighborsWithDiagonal(c) ==
    << <<c[1] + 1, c[2]>>, <<c[1] - 1, c[2]>>, <<c[1], c[2] + 1>>, <<c[1], c[2] - 1>>,
       <<c[1] + 1, c[2] + 1>> >>

\* [(i + 1, j), (i - 1, j), (i, j + 1), (i, j - 1)]
Neighbors(c) ==
    << <<c[1] + 1, c[2]>>, <<c[1] - 1, c[2]>>, <<c[1], c[2] + 1>>, <<c[1], c[2] - 1>> >>

\* ai >= 0 and ai < occupacyGrid.shape[0] and aj >= 0 and aj < occupacyGrid.shape[1]
InBounds(c, sh) == c[1] >= 0 /\ c[1] < sh[1] /\ c[2] >= 0 /\ c[2] < sh[2]

CanPushUnchecked(g, c, vis) == g[c] = 0

\* occupacyGrid[ai, aj] == 0 and (ai, aj) not in visited
CanPush(g, c, vis) == g[c] = 0 /\ c \notin vis

\* heapq.heappop returns the smallest tuple of the heap.
HeapMinIndex(hp) ==
    CHOOSE k \in 1..Len(hp) :
        /\ \A m \in 1..Len(hp) : hp[m] = hp[k] \/ LexLess(hp[k], hp[m])
        /\ \A m \in 1..(k - 1) : hp[m] # hp[k]

RemoveAt(hp, k) == SubSeq(hp, 1, k - 1) \o SubSeq(hp, k + 1, Len(hp))

\* The for loop of lines 64-71 over the neighbours nbrs of the popped cell;
\* st is [heap, visited, pushes].
RECURSIVE PushNeighbors(_, _, _, _)
PushNeighbors(g, sh, st, nbrs) ==
    IF nbrs = <<>> THEN st
    ELSE LET a == Head(nbrs)
         IN  IF InBounds(a, sh) /\ CanPush(g, a, st.visited)
             THEN PushNeighbors(g, sh,
                      [heap    |-> Append(st.heap, a),
                       visited |-> st.visited \cup {a},
                       pushes  |-> [st.pushes EXCEPT ![a] = @ + 1]],
                      Tail(nbrs))
             ELSE PushNeighbors(g, sh, st, Tail(nbrs))

\* One iteration of the while loop of line 58: pop, label, push neighbours.
\* Returns [grid, heap, visited, pushes].
PopStep(g, sh, cur, st) ==
    LET k    == HeapMinIndex(st.heap)
        cell == st.heap[k]
        g2   == [g EXCEPT ![cell] = cur]
        st2  == PushNeighbors(g2, sh,
                    [heap |-> RemoveAt(st.heap, k), visited |-> st.visited,
                     pushes |-> st.pushes],
                    Neighbors(cell))
    IN  [grid |-> g2, heap |-> st2.heap, visited |-> st2.visited, pushes |-> st2.pushes]

\* Lines 49-56: a new fill from the first unlabelled free cell.
SeedState(g) ==
    [heap    |-> <<StartCell(g)>>,
     visited |-> {StartCell(g)},
     pushes  |-> [c \in DOMAIN g |-> IF c = StartCell(g) THEN 1 ELSE 0]]

\* The while loop of lines 58-71 run to its end.
RECURSIVE GrassFire(_, _, _, _)
GrassFire(g, sh, cur, st) ==
    IF Len(st.heap) = 0 THEN g
    ELSE LET nx == PopStep(g, sh, cur, st)
         IN  GrassFire(nx.grid, sh, cur,
                 [heap |-> nx.heap, visited |-> nx.visited, pushes |-> nx.pushes])

\* The while loop of lines 46-73 run to its end.
RECURSIVE LabelLoop(_, _, _)
LabelLoop(g, sh, cur) ==
    IF CountEq(g, 0) > 0
    THEN LabelLoop(GrassFire(g, sh, cur, SeedState(g)), sh, cur + 1)
    ELSE g

\* extractAllRegions(occupacyGrid) as a function of its argument.
ExtractAllRegions(g, sh) == LabelLoop(Normalise(g), sh, 1)

(***************************************************************************)
(* The state before any call: the occupancy grid the caller holds.         *)
(***************************************************************************)
Init ==
    /\ shape \in Shapes
    /\ input \in [Cells(shape) -> {0, 1}]
    /\ callerGrid = input
    /\ occupacyGrid = <<>>
    /\ curRegionId = 0
    /\ heap = <<>>
    /\ visited = {}
    /\ pushes = <<>>
    /\ freeAtSeed = 0
    /\ pc = "idle"
    /\ n = 0
    /\ minRegionArea = 0
    /\ precision = <<1, 1>>
    /\ occupancyMapCoord = <<>>
    /\ labeledNavMap = <<>>
    /\ unfiltered = <<>>
    /\ nbRegions = 0
    /\ r = 0
    /\ curValidRegionId = 0
    /\ regionAreas = <<>>
    /\ filterAreas = <<>>
    /\ s = <<>>
    /\ positions = <<>>
    /\ selRegionIds = <<>>
    /\ error = "none"

(***************************************************************************)
(* extractAllRegions, one loop iteration per step.                         *)
(***************************************************************************)

\* Lines 42-45.
ExtractCall ==
    /\ pc = "idle"
    /\ occupacyGrid' = Normalise(callerGrid)
    /\ callerGrid' = CallerAfter(occupacyGrid')
    /\ curRegionId' = 1
    /\ pc' = "outer"
    /\ UNCHANGED <<shape, input, heap, visited, pushes, freeAtSeed>>
    /\ UNCHANGED spawnVars

\* Line 46 true, lines 49-56.
SeedFill ==
    /\ pc = "outer"
    /\ CountEq(occupacyGrid, 0) > 0
    /\ heap' = SeedState(occupacyGrid).heap
    /\ visited' = SeedState(occupacyGrid).visited
    /\ pushes' = SeedState(occupacyGrid).pushes
    /\ freeAtSeed' = CountEq(occupacyGrid, 0)
    /\ pc' = "inner"
    /\ UNCHANGED <<shape, input, callerGrid, occupacyGrid, curRegionId>>
    /\ UNCHANGED spawnVars

\* Line 58 true, lines 60-71.
PopCell ==
    /\ pc = "inner"
    /\ Len(heap) > 0
    /\ LET nx == PopStep(occupacyGrid, shape, curRegionId,
                         [heap |-> heap, visited |-> visited, pushes |-> pushes])
       IN  /\ occupacyGrid' = nx.grid
           /\ callerGrid' = CallerAfter(nx.grid)
           /\ heap' = nx.heap
           /\ visited' = nx.visited
           /\ pushes' = nx.pushes
    /\ UNCHANGED <<shape, input, curRegionId, freeAtSeed, pc>>
    /\ UNCHANGED spawnVars

\* Line 58 false, line 73.
EndFill ==
    /\ pc = "inner"
    /\ Len(heap) = 0
    /\ curRegionId' = curRegionId + 1
    /\ pc' = "outer"
    /\ UNCHANGED <<shape, input, callerGrid, occupacyGrid, heap, visited, pushes,
                   freeAtSeed>>
    /\ UNCHANGED spawnVars

\* Line 46 false, lines 75-78.
ExtractReturn ==
    /\ pc = "outer"
    /\ CountEq(occupacyGrid, 0) = 0
    /\ pc' = "returned"
    /\ UNCHANGED <<shape, input, callerGrid>>
    /\ UNCHANGED labelVars
    /\ UNCHANGED spawnVars

LabelNext == ExtractCall \/ SeedFill \/ PopCell \/ EndFill \/ ExtractReturn

LabelSpec == Init /\ [][LabelNext]_vars


(***************************************************************************)
(* 4-connectivity of the free cells of a grid, defined on the grid alone.  *)
(***************************************************************************)
FreeCells(g) == {c \in DOMAIN g : g[c] = 0}

Adjacent4(a, b) ==
    \/ a[1] = b[1] /\ (a[2] = b[2] + 1 \/ b[2] = a[2] + 1)
    \/ a[2] = b[2] /\ (a[1] = b[1] + 1 \/ b[1] = a[1] + 1)

DiagonalOnly(a, b) ==
    /\ (a[1] = b[1] + 1 \/ b[1] = a[1] + 1)
    /\ (a[2] = b[2] + 1 \/ b[2] = a[2] + 1)

\* The free cells joined to a cell of S by a path of 4-adjacent free cells.
RECURSIVE Reach(_, _)
Reach(g, S) ==
    LET N == S \cup {c \in FreeCells(g) : \E d \in S : Adjacent4(c, d)}
    IN  IF N = S THEN S ELSE Reach(g, N)

Connected(g, a, b) == b \in Reach(g, {a})

Components(g) == {Reach(g, {c}) : c \in FreeCells(g)}

Labels(g) == {g[c] : c \in DOMAIN g} \ {OCCUPIED_MARK, 0}

\* The row-major-first cell holding label k.
FirstCell(g, k) == Argwhere(g, k)[1]

\* The step-by-step run returns what the function computes.
StepwiseAgreesWithFunction ==
    pc = "returned" => occupacyGrid = ExtractAllRegions(input, shape)

\* C1: in the returned grid two FREE input cells carry the same label if and
\* only if a path of 4-adjacent FREE input cells joins them.
C1_SameLabelIffConnected ==
    pc = "returned" =>
        \A a, b \in FreeCells(input) :
            (occupacyGrid[a] = occupacyGrid[b]) <=> Connected(input, a, b)

\* A returned grid where a diagonal-only contact separates two regions and a
\* region of several cells exists.
C1_Witness ==
    /\ pc = "returned"
    /\ \E a, b \in FreeCells(input) :
           DiagonalOnly(a, b) /\ occupacyGrid[a] # occupacyGrid[b]
    /\ \E a, b \in FreeCells(input) :
           a # b /\ ~Adjacent4(a, b) /\ occupacyGrid[a] = occupacyGrid[b]

\* C2: on return every OCCUPIED (non-zero) input cell holds OCCUPIED_MARK,
\* every FREE (zero) input cell holds a positive label and no cell holds 0.
C2_Coverage ==
    pc = "returned" =>
        \A c \in DOMAIN input :
            /\ input[c] # 0 => occupacyGrid[c] = OCCUPIED_MARK
            /\ input[c] = 0 => occupacyGrid[c] > 0
            /\ occupacyGrid[c] # 0

C2_Witness ==
    /\ pc = "returned"
    /\ \E c \in DOMAIN input : input[c] # 0 /\ occupacyGrid[c] = OCCUPIED_MARK
    /\ \E c \in DOMAIN input : input[c] = 0 /\ occupacyGrid[c] > 1

\* C3: the labels are exactly 1..R (R = 0 and every cell -1 when no cell is
\* free) and the first cell of region k precedes the first cell of region k+1.
C3_ContiguousSeedOrder ==
    pc = "returned" =>
        LET R == Cardinality(Labels(occupacyGrid))
        IN  /\ Labels(occupacyGrid) = 1..R
            /\ \A c \in DOMAIN occupacyGrid :
                   occupacyGrid[c] = OCCUPIED_MARK \/ occupacyGrid[c] \in 1..R
            /\ FreeCells(input) = {} =>
                   R = 0 /\ \A c \in DOMAIN occupacyGrid : occupacyGrid[c] = OCCUPIED_MARK
            /\ \A k \in 1..(R - 1) :
                   LexLess(FirstCell(occupacyGrid, k), FirstCell(occupacyGrid, k + 1))

C3_Witness ==
    /\ pc = "returned"
    /\ Labels(occupacyGrid) = 1..3
    /\ CountEq(occupacyGrid, 1) > 1

\* C9: the caller's grid holds the same values throughout and after the call.
C9_InputNotMutated == callerGrid = input

C9_Witness ==
    /\ pc = "returned"
    /\ callerGrid = input
    /\ \E c \in DOMAIN input : input[c] # 0 /\ occupacyGrid[c] # input[c]
    /\ \E c \in DOMAIN input : input[c] = 0 /\ occupacyGrid[c] # input[c]

\* In one fill no cell is pushed twice.
PushedOnce ==
    pc = "inner" =>
        /\ \A c \in DOMAIN pushes : pushes[c] <= 1
        /\ \A k, m \in 1..Len(heap) : heap[k] = heap[m] => k = m

\* Every fill lowers the number of unlabelled free cells.
FillLowersFreeCount ==
    (pc = "inner" /\ pc' = "outer") =>
        /\ CountEq(occupacyGrid', 0) < freeAtSeed
        /\ curRegionId' = curRegionId + 1

\* The outer loop ends after R fills, R the number of 4-connected components.
ExactlyRFills ==
    pc = "returned" => curRegionId - 1 = Cardinality(Components(input))

\* A bound on the work left: every step of the function lowers it.  A pop
\* labels one unlabelled cell and pushes at most four; the cells of the heap
\* are distinct unlabelled cells.
Unlabelled == IF pc = "idle" THEN CountEq(callerGrid, 0) ELSE CountEq(occupacyGrid, 0)

Variant ==
    CASE pc = "idle"     -> 3 * Unlabelled + 3
      [] pc = "outer"    -> 3 * Unlabelled + 2
      [] pc = "inner"    -> 3 * Unlabelled + 3 - 2 * Len(heap)
      [] pc = "returned" -> 0

Progress == Variant >= 0 /\ (pc = "returned" \/ ENABLED LabelNext)

\* C10: every step of extractAllRegions lowers the non-negative Variant and
\* the function is never blocked before it returns, so it terminates; no
\* cell is pushed twice in a fill, every fill lowers the number of
\* unlabelled free cells, and there are exactly R fills.
C10_Terminates ==
    /\ []PushedOnce
    /\ [][FillLowersFreeCount]_vars
    /\ []ExactlyRFills
    /\ []Progress
    /\ [][Variant' < Variant]_vars

C10_Witness ==
    /\ pc = "returned"
    /\ curRegionId = 3
    /\ CountEq(occupacyGrid, 2) >= 3


(***************************************************************************)
(* BasicEnvironment.generateOccupancyMap and generateSpawnPositions.       *)
(***************************************************************************)

\* self.occupancyMapCoord, the second result of
\* physicWorld.calculate2dNavigationMap: the world coordinate of every cell.
CoordinateMap(sh, p) ==
    [c \in Cells(sh) |-> << <<c[1] * p[1], p[2]>>, <<c[2] * p[1], p[2]>> >>]

\* cellArea = precision ** 2
CellArea(p) == <<p[1] * p[1], p[2] * p[2]>>

\* regionArea = nbCells * cellArea
RegionArea(nbCells, cellArea) == <<nbCells * cellArea[1], cellArea[2]>>

TooSmallInverted(regionArea, threshold) == regionArea[1] > threshold * regionArea[2]

\* regionArea < minRegionArea
TooSmall(regionArea, threshold) == regionArea[1] < threshold * regionArea[2]

\* labeledNavMap[labeledNavMap == old] = new
Relabel(g, old, new) == [c \in DOMAIN g |-> IF g[c] = old THEN new ELSE g[c]]

NextValidIdStuck(cur) == cur

\* curValidRegionId += 1
NextValidId(cur) == cur + 1

\* Lines 180-185: the area of every region 1..nb of g.
AreasOf(g, nb, cellArea) ==
    [k \in 1..(IF nb > 0 THEN nb ELSE 0) |-> RegionArea(CountEq(g, k), cellArea)]

\* np.cumsum of the numerators of the areas a, which share one denominator;
\* the division by np.sum(regionAreas) of line 189 makes share k equal to
\* CumSum(a)[k] / CumSum(a)[Len(a)].
RECURSIVE SumTo(_, _)
SumTo(a, k) == IF k = 0 THEN 0 ELSE SumTo(a, k - 1) + a[k][1]

CumSum(a) == [k \in 1..Len(a) |-> SumTo(a, k)]

\* The values np.random.random() is drawn from: rationals a/b of [0, 1).
Draws == {u \in (0..MaxDen) \X (1..MaxDen) : u[1] < u[2] /\ (u[1] = 0 => u[2] = 1)}

\* The draws of one loop iteration: none is made when len(s) <= 1.
DrawsFor(cum) == IF Len(cum) > 1 THEN Draws ELSE {<<0, 1>>}

\* s < r of line 198, for the shares cum[k] / cum[Len(cum)] (regionAreas
\* divided by its sum at line 189) and r = u[1] / u[2]: 1-based positions.
Below(cum, u) == {k \in 1..Len(cum) : cum[k] * u[2] < u[1] * cum[Len(cum)]}

SetMax(S) == CHOOSE m \in S : \A k \in S : k <= m

\* Lines 195-201: selRegionId for the draw u, or 0 when
\* np.argwhere(s < r)[-1] raises IndexError.  The last 0-based index is
\* SetMax(Below) - 1, idx adds 1 to it and selRegionId adds 1 to idx.
SelRegionId(cum, u) ==
    IF Len(cum) > 1
    THEN IF Below(cum, u) = {} THEN 0 ELSE ((SetMax(Below(cum, u)) - 1) + 1) + 1
    ELSE 1

RegionCellsAny(g, sel) == ArgwhereGe(g, 1)

\* coord = np.argwhere(self.labeledNavMap == selRegionId)
RegionCells(g, sel) == Argwhere(g, sel)

\* The values of np.random.randint(low, high); none: it raises ValueError.
Randint(low, high) == low..(high - 1)

LoopCountShort(count) == count - 1

\* for _ in range(n)
LoopCount(count) == count

\* Lines 176, 150-158: the call, the navigation map, the labelling.
GenerateSpawnPositionsCall ==
    /\ pc = "idle"
    /\ \E nn \in {0, MaxN}, t \in 0..MaxMinRegionArea, q \in 1..MaxPrecisionDen :
           /\ n' = nn
           /\ minRegionArea' = t
           /\ precision' = <<1, q>>
           /\ occupancyMapCoord' = CoordinateMap(shape, <<1, q>>)
    /\ labeledNavMap' = ExtractAllRegions(callerGrid, shape)
    /\ callerGrid' = CallerAfter(labeledNavMap')
    /\ unfiltered' = labeledNavMap'
    /\ curValidRegionId' = 1
    /\ nbRegions' = GridMax(labeledNavMap')
    /\ regionAreas' = <<>>
    /\ r' = 1
    /\ pc' = "filter"
    /\ UNCHANGED <<shape, input, filterAreas, s, positions, selRegionIds, error>>
    /\ UNCHANGED labelVars

\* Lines 159-167: one iteration of the filtering pass.
FilterStep ==
    /\ pc = "filter"
    /\ r <= nbRegions
    /\ LET regionArea == RegionArea(CountEq(labeledNavMap, r), CellArea(precision))
       IN  IF TooSmall(regionArea, minRegionArea)
           THEN /\ labeledNavMap' = Relabel(labeledNavMap, r, OCCUPIED_MARK)
                /\ UNCHANGED <<regionAreas, curValidRegionId>>
           ELSE /\ labeledNavMap' = Relabel(labeledNavMap, r, curValidRegionId)
                /\ regionAreas' = Append(regionAreas, regionArea)
                /\ curValidRegionId' = NextValidId(curValidRegionId)
    /\ callerGrid' = CallerAfter(labeledNavMap')
    /\ r' = r + 1
    /\ UNCHANGED <<shape, input, pc, n, minRegionArea, precision, occupancyMapCoord,
                   unfiltered, nbRegions, filterAreas, s, positions, selRegionIds,
                   error>>
    /\ UNCHANGED labelVars

\* Lines 169-172 (generateOccupancyMap returns), then lines 179-190.
ComputeShares ==
    /\ pc = "filter"
    /\ r > nbRegions
    /\ IF CountEq(labeledNavMap, 0) > 0
       THEN /\ error' = "AssertionError"
            /\ pc' = "failed"
            /\ UNCHANGED <<filterAreas, nbRegions, regionAreas, s>>
       ELSE /\ filterAreas' = regionAreas
            /\ nbRegions' = GridMax(labeledNavMap)
            /\ regionAreas' = AreasOf(labeledNavMap, nbRegions', CellArea(precision))
            /\ s' = CumSum(regionAreas')
            /\ pc' = "sample"
            /\ UNCHANGED error
    /\ UNCHANGED <<shape, input, callerGrid, n, minRegionArea, precision,
                   occupancyMapCoord, labeledNavMap, unfiltered, r, curValidRegionId,
                   positions, selRegionIds>>
    /\ UNCHANGED labelVars

sampleFrame == <<shape, input, callerGrid, n, minRegionArea, precision,
                 occupancyMapCoord, labeledNavMap, unfiltered, nbRegions, r,
                 curValidRegionId, regionAreas, filterAreas, s>>

\* Lines 193-198: np.argwhere(s < r)[-1] raises IndexError.
DrawRegionFails ==
    /\ pc = "sample"
    /\ Len(positions) < LoopCount(n)
    /\ Len(s) > 1
    /\ \E u \in Draws : SelRegionId(s, u) = 0
    /\ error' = "IndexError"
    /\ pc' = "failed"
    /\ UNCHANGED <<positions, selRegionIds>>
    /\ UNCHANGED sampleFrame
    /\ UNCHANGED labelVars

\* Lines 193-205: np.random.randint(low=0, high=0) raises ValueError.
DrawCellFails ==
    /\ pc = "sample"
    /\ Len(positions) < LoopCount(n)
    /\ \E u \in DrawsFor(s) :
           /\ SelRegionId(s, u) # 0
           /\ Randint(0, Len(RegionCells(labeledNavMap, SelRegionId(s, u)))) = {}
    /\ error' = "ValueError"
    /\ pc' = "failed"
    /\ UNCHANGED <<positions, selRegionIds>>
    /\ UNCHANGED sampleFrame
    /\ UNCHANGED labelVars

\* Lines 193-209: one position is drawn and appended.
DrawPosition ==
    /\ pc = "sample"
    /\ Len(positions) < LoopCount(n)
    /\ \E u \in DrawsFor(s) :
           /\ SelRegionId(s, u) # 0
           /\ LET coord == RegionCells(labeledNavMap, SelRegionId(s, u))
              IN  \E k \in Randint(0, Len(coord)) :
                      /\ positions' = Append(positions, occupancyMapCoord[coord[k + 1]])
                      /\ selRegionIds' = Append(selRegionIds, SelRegionId(s, u))
    /\ UNCHANGED <<pc, error>>
    /\ UNCHANGED sampleFrame
    /\ UNCHANGED labelVars

\* Line 193 exhausted, lines 211-214.
SpawnReturn ==
    /\ pc = "sample"
    /\ Len(positions) >= LoopCount(n)
    /\ pc' = "done"
    /\ UNCHANGED <<positions, selRegionIds, error>>
    /\ UNCHANGED sampleFrame
    /\ UNCHANGED labelVars

Next ==
    \/ GenerateSpawnPositionsCall
    \/ FilterStep
    \/ ComputeShares
    \/ DrawRegionFails
    \/ DrawCellFails
    \/ DrawPosition
    \/ SpawnReturn

Spec == Init /\ [][Next]_vars


(***************************************************************************)
(* Properties of the filtering pass and of the sampling loop.              *)
(***************************************************************************)
Filtered == pc \in {"sample", "done", "failed"} /\ error # "AssertionError"

\* Area of the region of the unfiltered labelling that holds cell c.
UnfilteredCount(c) == CountEq(unfiltered, unfiltered[c])

\* cellCount * precision^2 >= threshold, for the precision num / den.
AreaReaches(cellCount, threshold) ==
    cellCount * precision[1] * precision[1] >= threshold * precision[2] * precision[2]

\* The cells of the unfiltered regions that reach the threshold.
SurvivorCells ==
    {c \in DOMAIN unfiltered :
        unfiltered[c] > 0 /\ AreaReaches(UnfilteredCount(c), minRegionArea)}

\* C4: after the filtering pass every region still present has
\* cellCount * cellArea >= minRegionArea, every cell of an unfiltered region
\* below the threshold holds -1, cells that were -1 stay -1, no cell holds 0.
C4_AreaFilter ==
    Filtered =>
        /\ \A k \in Labels(labeledNavMap) :
               AreaReaches(CountEq(labeledNavMap, k), minRegionArea)
        /\ \A c \in DOMAIN unfiltered :
               /\ (unfiltered[c] > 0 /\ ~AreaReaches(UnfilteredCount(c), minRegionArea))
                      => labeledNavMap[c] = OCCUPIED_MARK
               /\ unfiltered[c] = OCCUPIED_MARK => labeledNavMap[c] = OCCUPIED_MARK
               /\ labeledNavMap[c] # 0

\* A filtered map where one region was removed, one was kept and an occupied
\* cell stayed marked.
C4_Witness ==
    /\ Filtered
    /\ \E c \in DOMAIN unfiltered : unfiltered[c] > 0 /\ labeledNavMap[c] = OCCUPIED_MARK
    /\ \E c \in DOMAIN unfiltered : unfiltered[c] > 0 /\ labeledNavMap[c] > 0
    /\ \E c \in DOMAIN unfiltered : unfiltered[c] = OCCUPIED_MARK

\* C5: the renumbering maps the surviving regions onto 1..R' contiguously,
\* keeps their relative order, merges no two regions, keeps every cell count,
\* and the areas recomputed by generateSpawnPositions are those of the pass.
C5_Renumbering ==
    Filtered =>
        /\ {c \in DOMAIN labeledNavMap : labeledNavMap[c] > 0} = SurvivorCells
        /\ Labels(labeledNavMap) = 1..Cardinality({unfiltered[c] : c \in SurvivorCells})
        /\ \A a, b \in SurvivorCells :
               /\ (labeledNavMap[a] = labeledNavMap[b]) <=> (unfiltered[a] = unfiltered[b])
               /\ unfiltered[a] < unfiltered[b] => labeledNavMap[a] < labeledNavMap[b]
        /\ \A c \in SurvivorCells :
               CountEq(labeledNavMap, labeledNavMap[c]) = CountEq(unfiltered, unfiltered[c])
        /\ regionAreas = filterAreas

\* A filtered map with two survivors that both moved down one label because
\* the region numbered before them was removed.
C5_Witness ==
    /\ Filtered
    /\ Labels(labeledNavMap) = {1, 2}
    /\ \E a, b \in SurvivorCells :
           /\ unfiltered[a] = 2 /\ labeledNavMap[a] = 1
           /\ unfiltered[b] = 3 /\ labeledNavMap[b] = 2

\* The first region whose cumulative share exceeds the draw u.
FirstExceeding(cum, u) ==
    CHOOSE k \in 1..Len(cum) :
        /\ cum[k] * u[2] > u[1] * cum[Len(cum)]
        /\ \A m \in 1..(k - 1) : ~(cum[m] * u[2] > u[1] * cum[Len(cum)])

\* A loop iteration that draws a region has run.
RegionDrawn == Filtered /\ Len(s) > 1 /\ (Len(positions) > 0 \/ pc = "failed")

\* C6: with two or more surviving regions every draw u selects the first
\* region whose cumulative share exceeds u (a draw below the first share
\* selects region 1, a draw equal to S_k selects region k+1), the selection
\* never fails and the region id is within 1..R'.  Stated of the states in
\* which a loop iteration that draws a region has run.
C6_FirstExceedingSelected ==
    RegionDrawn =>
        /\ error = "none"
        /\ \A u \in Draws :
               /\ SelRegionId(s, u) = FirstExceeding(s, u)
               /\ SelRegionId(s, u) \in 1..Len(s)

\* C7: every returned position is occupancyMapCoord[i, j] of a cell whose
\* label in the filtered map is the selected region id; with exactly one
\* surviving region every sampled cell carries label 1.
C7_PositionInSelectedRegion ==
    Filtered =>
        /\ Len(selRegionIds) = Len(positions)
        /\ \A k \in 1..Len(positions) :
               /\ selRegionIds[k] >= 1
               /\ \E c \in DOMAIN labeledNavMap : positions[k] = occupancyMapCoord[c]
               /\ \A c \in DOMAIN labeledNavMap :
                      positions[k] = occupancyMapCoord[c]
                          => /\ labeledNavMap[c] = selRegionIds[k]
                             /\ Labels(labeledNavMap) = {1} => labeledNavMap[c] = 1

\* A position drawn from region 2 of a map that also has a region 1, a
\* removed region and an occupied cell.
C7_Witness ==
    /\ pc = "done"
    /\ Len(positions) > 0
    /\ selRegionIds[1] = 2
    /\ \E c \in DOMAIN unfiltered : unfiltered[c] > 0 /\ labeledNavMap[c] = OCCUPIED_MARK

NoRegionSurvives == Filtered /\ Labels(labeledNavMap) = {} /\ n > 0

====
